---- MODULE Spec2Model ----
(***************************************************************************)
(* Model of the dashboard server of RalphWiggumV2:                         *)
(*   - LoopController  (dashboard/server/loopController.ts): the process   *)
(*     supervisor: start / stop / grace timer / child events;              *)
(*   - FileWatcher     (dashboard/server/fileWatcher.ts): the log tailer,  *)
(*     the checklist parser and the repository-status poll;                *)
(*   - the WebSocket hub (dashboard/server/index.ts): the client set,      *)
(*     the snapshots sent on connect and the broadcast of every event.     *)
(* Every action is one run-to-completion callback of the Node event loop   *)
(* (a handler up to its next await).                                       *)
(***************************************************************************)
EXTENDS Integers, Sequences, FiniteSets, TLC

(* ---------------------------------------------------------------- bounds *)
\* children spawned in one behaviour
MaxSpawns == 2
\* grace timers pending at once
MaxTimers == 2
\* clock ticks that make up one grace period
TicksPerGrace == 1
\* largest iteration number a child prints
MaxIter == 1
\* operations (append, truncate, remove) done on the log file
MaxFileOps == 3
\* tailLog() invocations in flight at once
MaxTails == 2
\* sockets that exist at once
MaxClients == 2
\* pieces a classified line is made of
MaxPieces == 2
\* lines of a generated plan text
MaxPlanLines == 2
\* loop:log messages an observer receives
MaxReceived == 502
\* generatePRD() calls that are accepted
MaxPrd == 3
\* WebSockets one instance of the observer hook creates
MaxHookSockets == 3

(* ------------------------------------------------------ program constants *)
\* setTimeout(..., 5000) in LoopController.stop
GracePeriod == 5000

\* the number of entries the observer keeps before it adds one
LogKeep == 500

TickMs == GracePeriod \div TicksPerGrace

Children == 1..MaxSpawns

Sockets == 1..MaxClients

\* the signal counters of a child saturate here
MaxCount == MaxTimers

Min(a, b) == IF a <= b THEN a ELSE b

(* ------------------------------------------------------------- variables *)
VARIABLES
  process,    \* LoopController.process: 0 is null, else the child held
  status,     \* LoopController.status
  child,      \* the children spawned so far, as the operating system and Node see them
  spawned,    \* number of spawn() calls made
  timers,     \* pending setTimeout callbacks of stop(), in firing order
  out,        \* the events emitted by the handler that ran last
  lastBcast,  \* payload of the latest broadcast of each retained category
  logExists,  \* whether ralph.log exists
  logFile,    \* the bytes of ralph.log
  lastLogPosition,  \* FileWatcher.lastLogPosition
  tails,      \* the tailLog() invocations in flight, each at one of its awaits
  notifs,     \* 'add' / 'change' notifications chokidar has not delivered yet
  fileOps,    \* number of operations done on ralph.log
  resets,     \* whether ralph.log was ever truncated or removed (0 or 1)
  emitted,    \* history: per tailLog() that emitted, the byte range and the lines
  raced,      \* history: a tail was in flight when the file changed or another tail began
  caught,     \* history: "pending" since a tail ended in its catch, "served" once a tail emitted after it
  planFile,   \* the text of IMPLEMENTATION_PLAN.md
  planNotifs, \* 'add' / 'change' notifications of the plan file not delivered yet
  tasks,      \* FileWatcher.tasks
  gitStatus,  \* FileWatcher.gitStatus
  clients,    \* the Set clients of index.ts
  ready,      \* readyState of each socket ("none": no such socket)
  sent,       \* the messages the handler that ran last sent to each socket
  first,      \* history: how the stream of messages sent to each socket begins
  cmd,        \* the command the message handler received last
  docs,       \* the documents that exist under the project path
  fsOps,      \* the file-system operations the handler that ran last performed
  config,     \* ProjectConfigManager.config
  logLine,    \* a line handed to classifyLogLine
  logType,    \* the type classifyLogLine returned for it
  logs,       \* useWebSocket: the logs state of the observer, entries named by arrival number
  received,   \* number of loop:log messages the observer has received
  prdProcess, \* PRDGenerator.process: 0 is null, else the child held
  prdStatus,  \* PRDGenerator.status (startedAt 0 is null)
  prdChild,   \* the children the PRD generator spawned, as the operating system and Node see them
  prdSpawned, \* number of spawn() calls the PRD generator made
  prdPending, \* generatePRD() calls waiting for the prompt file to be read
  prdCalls,   \* number of generatePRD() calls accepted
  watching,   \* whether the chokidar watchers of the FileWatcher are open
  serverUp,   \* whether the server process is running
  hookPhase,  \* the useWebSocket effect: "new", "mounted", or "cleaned" once its cleanup ran
  wsRef,      \* wsRef.current: 0 is null, else the WebSocket held
  hookSock,   \* readyState of each WebSocket the hook created ("none": not created)
  opened,     \* number of WebSockets the hook created
  armed,      \* number of reconnect timers the hook armed
  pending,    \* the reconnect timers that are pending
  timeoutRef  \* reconnectTimeoutRef.current: 0 is null, else a timer

supVars == <<process, status, child, spawned, timers>>
tailVars == <<logExists, logFile, lastLogPosition, tails, notifs, fileOps, resets, emitted, raced,
             caught>>
fwVars == <<planFile, planNotifs, tasks, gitStatus>>
connVars == <<clients, ready>>
docVars == <<cmd, docs, fsOps, config>>
clsVars == <<logLine, logType>>
obsVars == <<logs, received>>
prdVars == <<prdProcess, prdStatus, prdChild, prdSpawned, prdPending, prdCalls>>
hookVars == <<hookPhase, wsRef, hookSock, opened, armed, pending, timeoutRef>>
extVars == <<obsVars, prdVars, hookVars, watching, serverUp>>
notObs == <<prdVars, hookVars, watching, serverUp>>
notPrd == <<obsVars, hookVars, watching, serverUp>>
notHook == <<obsVars, prdVars, watching, serverUp>>
\* the server as far as the observer and the generators leave it alone
serverVars == <<supVars, tailVars, fwVars, connVars, docVars, clsVars>>
notSup == <<tailVars, fwVars, docVars, clsVars, extVars>>
notTail == <<supVars, fwVars, docVars, clsVars, extVars>>
notFw == <<supVars, tailVars, docVars, clsVars, extVars>>
vars == <<supVars, out, lastBcast, tailVars, fwVars, connVars, sent, first, docVars, clsVars, extVars>>

(* ------------------------------------------------------------ supervisor *)
\* LoopStatus as constructed: running false, mode null, no optional field.
\* 0 stands for an undefined startedAt and pid, "undefined" for no workScope.
InitStatus ==
  [running |-> FALSE, mode |-> "null", iteration |-> 0, maxIterations |-> 0,
   workScope |-> "undefined", startedAt |-> 0, pid |-> 0]

\* the payloads start() is called with (maxIterations 0 = not given)
StartOptions ==
  { [mode |-> "build", maxIterations |-> 0, workScope |-> "undefined"],
    [mode |-> "plan", maxIterations |-> MaxIter, workScope |-> "undefined"],
    [mode |-> "plan-work", maxIterations |-> 0, workScope |-> "scope"] }

\* a child: its state, the SIGINTs and SIGKILLs delivered to it, the time
\* since the first stop() that signalled it (-1: none yet), the arguments
\* after the script path and the WORK_SCOPE of its environment
UnbornChild ==
  [st |-> "unborn", ints |-> 0, kills |-> 0, sinceStop |-> -1, argv |-> <<>>, env |-> ""]

\* the args array start() builds for its options
Args(o) ==
  CASE o.mode \in {"plan", "plan-slc"} ->
         <<o.mode>> \o (IF o.maxIterations # 0 THEN <<ToString(o.maxIterations)>> ELSE <<>>)
    [] o.mode = "plan-work" ->
         <<"plan-work">> \o (IF o.workScope \notin {"undefined", ""} THEN <<o.workScope>> ELSE <<>>)
    [] o.mode = "build" ->
         IF o.maxIterations # 0 THEN <<ToString(o.maxIterations)>> ELSE <<>>
    [] OTHER -> <<>>

\* WORK_SCOPE: workScope || ''
WorkScopeEnv(o) == IF o.workScope = "undefined" THEN "" ELSE o.workScope

ClosedChild == [UnbornChild EXCEPT !.st = "closed"]

\* a LogEntry as broadcast; content is text, a sequence of pieces (the
\* characters of a log-file line, or one fixed message of the supervisor)
LogEvent(content, level) ==
  [type |-> "loop:log", payload |-> [content |-> content, level |-> level]]

\* emitLog(content, type) of the supervisor
SupLog(text, level) == LogEvent(<<text>>, level)

StatusEvent(s) == [type |-> "loop:status", payload |-> s]

\* (mutant) a getStatus() that answers with the status as constructed
getStatusStale == InitStatus

\* getStatus(): a copy of the status
getStatus == status

\* the latest payload of each retained category among the events evs, else the old one
Retained(evs, type, old) ==
  LET idx == {i \in 1..Len(evs) : evs[i].type = type}
  IN IF idx = {} THEN old
     ELSE evs[CHOOSE i \in idx : \A j \in idx : j <= i].payload

\* the types of the first three messages of the initial state
SnapshotTypes == <<"loop:status", "tasks:update", "git:update">>

\* how a socket's stream begins once msgs are sent to it: "nothing" while
\* nothing was sent, "snapshots" when the first three messages are the
\* initial state, "other" when anything else came first
Begins(was, msgs) ==
  IF was # "nothing" \/ msgs = <<>> THEN was
  ELSE IF Len(msgs) >= 3 /\ [i \in 1..3 |-> msgs[i].type] = SnapshotTypes
       THEN "snapshots"
       ELSE "other"

\* what a handler sent to each socket, recorded
Send(msgs) ==
  /\ sent' = msgs
  /\ first' = [c \in Sockets |->
                 IF ready'[c] = "none" THEN "nothing" ELSE Begins(first[c], msgs[c])]

\* (mutant) a broadcast whose loop over the set ends at the first socket that
\* is not OPEN
BroadcastAbort(evs) ==
  [c \in Sockets |->
     IF c \in clients /\ \A d \in clients : d <= c => ready[d] = "OPEN" THEN evs ELSE <<>>]

\* broadcast(message) for each of the events evs in order: client.send to
\* every client of the set whose readyState is OPEN
Broadcast(evs) ==
  [c \in Sockets |-> IF c \in clients /\ ready[c] = "OPEN" THEN evs ELSE <<>>]

\* the events a handler emits, each passed to broadcast() by the listeners
\* index.ts registers on the emitters; the handler leaves the sockets alone
Emit(evs) ==
  /\ out' = evs
  /\ UNCHANGED connVars
  /\ Send(Broadcast(evs))
  /\ lastBcast' = [status |-> Retained(evs, "loop:status", lastBcast.status),
                   tasks |-> Retained(evs, "tasks:update", lastBcast.tasks),
                   git |-> Retained(evs, "git:update", lastBcast.git)]

\* a step of the environment: no handler runs, nothing is emitted or sent
Silent == UNCHANGED <<out, lastBcast, sent, first>>

\* ChildProcess.kill(signal): delivered only while Node still has the handle
\* of a live process; ms is the time since the first stop() of this child
Kill(ch, c, sig) ==
  IF ch[c].st # "alive" THEN ch
  ELSE IF sig = "SIGINT"
       THEN [ch EXCEPT ![c].ints = Min(@ + 1, MaxCount)]
       ELSE [ch EXCEPT ![c].kills = Min(@ + 1, MaxCount)]

\* (mutant) start() without its guard: it spawns over the child it holds
StartOverHeld ==
  /\ UNCHANGED notSup
  /\ process # 0
  /\ spawned < MaxSpawns
  /\ spawned' = spawned + 1
  /\ process' = spawned + 1
  /\ child' = [child EXCEPT ![spawned + 1].st = "alive"]
  /\ status' = [status EXCEPT !.iteration = 0, !.startedAt = spawned + 1,
                               !.pid = spawned + 1]
  /\ Emit(<<SupLog("Starting loop", "info"), StatusEvent(status')>>)
  /\ UNCHANGED timers

\* start() while a child is held: a warning and nothing else
StartRefuse ==
  /\ UNCHANGED notSup
  /\ process # 0
  /\ Emit(<<SupLog("Loop already running", "warning")>>)
  /\ UNCHANGED supVars


\* (mutant) a start() that keeps the iteration of the run before
StartSpawnKeepsIteration(o, ok) ==
  /\ UNCHANGED notSup
  /\ process = 0
  /\ spawned < MaxSpawns
  /\ LET c == spawned + 1
         s == [running |-> TRUE, mode |-> o.mode, iteration |-> status.iteration,
               maxIterations |-> o.maxIterations, workScope |-> o.workScope,
               startedAt |-> c, pid |-> IF ok THEN c ELSE 0]
     IN /\ spawned' = c
        /\ process' = c
        /\ child' = [child EXCEPT ![c].st = IF ok THEN "alive" ELSE "failing",
                                  ![c].argv = Args(o),
                                  ![c].env = WorkScopeEnv(o)]
        /\ status' = s
        /\ Emit(<<SupLog("Starting loop", "info"), StatusEvent(s)>>)
  /\ UNCHANGED timers

\* start(options) with no child held: spawn, set the status, publish it.
\* ok = FALSE is a spawn that fails: the child has no pid and Node emits
\* 'error' and later 'close' for it.
StartSpawn(o, ok) ==
  /\ UNCHANGED notSup
  /\ process = 0
  /\ spawned < MaxSpawns
  /\ LET c == spawned + 1
         s == [running |-> TRUE, mode |-> o.mode, iteration |-> 0,
               maxIterations |-> o.maxIterations, workScope |-> o.workScope,
               startedAt |-> c, pid |-> IF ok THEN c ELSE 0]
     IN /\ spawned' = c
        /\ process' = c
        /\ child' = [child EXCEPT ![c].st = IF ok THEN "alive" ELSE "failing",
                                  ![c].argv = Args(o),
                                  ![c].env = WorkScopeEnv(o)]
        /\ status' = s
        /\ Emit(<<SupLog("Starting loop", "info"), StatusEvent(s)>>)
  /\ UNCHANGED timers

Start(o, ok) == StartRefuse \/ StartSpawn(o, ok)

\* (mutant) a stop() that arms its timer also when nothing is held
StopArmsUnheld ==
  \/ /\ process = 0
     /\ UNCHANGED notSup
     /\ Len(timers) < MaxTimers
     /\ Emit(<<SupLog("No loop running", "warning")>>)
     /\ timers' = Append(timers, [left |-> GracePeriod, armedFor |-> process])
     /\ UNCHANGED <<process, status, child, spawned>>
  \/ /\ process # 0
     /\ UNCHANGED notSup
     /\ Len(timers) < MaxTimers
     /\ Emit(<<SupLog("Stopping loop...", "info")>>)
     /\ child' = [Kill(child, process, "SIGINT") EXCEPT
                    ![process].sinceStop = IF @ < 0 THEN 0 ELSE @]
     /\ timers' = Append(timers, [left |-> GracePeriod, armedFor |-> process])
     /\ UNCHANGED <<process, status, spawned>>

\* stop(): a warning when nothing is held; else SIGINT and a 5000 ms timer
Stop ==
  \/ /\ process = 0
     /\ Emit(<<SupLog("No loop running", "warning")>>)
     /\ UNCHANGED <<supVars, notSup>>
  \/ /\ process # 0
     /\ UNCHANGED notSup
     /\ Len(timers) < MaxTimers
     /\ Emit(<<SupLog("Stopping loop...", "info")>>)
     /\ child' = [Kill(child, process, "SIGINT") EXCEPT
                    ![process].sinceStop = IF @ < 0 THEN 0 ELSE @]
     /\ timers' = Append(timers, [left |-> GracePeriod, armedFor |-> process])
     /\ UNCHANGED <<process, status, spawned>>

\* The 'error' of a failed spawn is emitted from process.nextTick, which runs
\* before any timer callback and before time passes.
NoTickPending == \A c \in Children : child[c].st # "failing"

\* (mutant) the timer callback escalating with SIGINT again instead of SIGKILL
TimerFireNoKill ==
  /\ UNCHANGED notSup
  /\ NoTickPending
  /\ timers # <<>>
  /\ Head(timers).left <= 0
  /\ timers' = Tail(timers)
  /\ IF process # 0
     THEN /\ Emit(<<SupLog("Force killing loop...", "warning")>>)
          /\ child' = Kill(child, process, "SIGINT")
     ELSE /\ Emit(<<>>)
          /\ UNCHANGED child
  /\ UNCHANGED <<process, status, spawned>>

\* the callback of the setTimeout of stop(): it reads this.process when it runs
TimerFire ==
  /\ UNCHANGED notSup
  /\ NoTickPending
  /\ timers # <<>>
  /\ Head(timers).left <= 0
  /\ timers' = Tail(timers)
  /\ IF process # 0
     THEN /\ Emit(<<SupLog("Force killing loop...", "warning")>>)
          /\ child' = Kill(child, process, "SIGKILL")
     ELSE /\ Emit(<<>>)
          /\ UNCHANGED child
  /\ UNCHANGED <<process, status, spawned>>

\* time passes by one tick; a timer that is due runs before the next tick
Tick ==
  /\ UNCHANGED notSup
  /\ NoTickPending
  /\ \A i \in 1..Len(timers) : timers[i].left > 0
  /\ timers' = [i \in 1..Len(timers) |->
                  [timers[i] EXCEPT !.left = @ - TickMs]]
  /\ child' = [c \in Children |->
                 IF child[c].sinceStop >= 0 /\ child[c].st = "alive"
                 THEN [child[c] EXCEPT !.sinceStop = Min(@ + TickMs, GracePeriod)]
                 ELSE child[c]]
  /\ UNCHANGED <<process, status, spawned, connVars>>
  /\ Silent

\* (mutant) handlers that put the status back as constructed
IdleResets(s) == InitStatus

\* (mutant) handlers that leave the pid of the child that ended
IdleKeepsPid(s) == [s EXCEPT !.running = FALSE]

\* what both the 'close' and the 'error' handler do after their log
Idle(s) == [s EXCEPT !.running = FALSE, !.pid = 0]

\* exit codes 'close' reports: 0, non-zero, null (killed by a signal)
ExitCodes(c) ==
  IF child[c].kills > 0 THEN {"null"} ELSE {"0", "1", "null"}

\* the log of the 'close' handler
ExitLog(code) == SupLog("Loop exited", IF code = "0" THEN "success" ELSE "error")

\* the 'close' handler: the handle it clears is whatever this.process holds
ChildClose(c, code) ==
  /\ UNCHANGED notSup
  /\ child[c].st = "alive"
  /\ code \in ExitCodes(c)
  /\ child' = [child EXCEPT ![c] = ClosedChild]
  /\ process' = 0
  /\ status' = Idle(status)
  /\ Emit(<<ExitLog(code), StatusEvent(status')>>)
  /\ UNCHANGED <<spawned, timers>>

\* a child whose spawn failed: Node emits 'error' and then 'close' (with the
\* negative errno as code) from the same callback, so both handlers run
\* back to back
ChildError(c) ==
  /\ UNCHANGED notSup
  /\ child[c].st = "failing"
  /\ child' = [child EXCEPT ![c] = ClosedChild]
  /\ process' = 0
  /\ status' = Idle(Idle(status))
  /\ Emit(<<SupLog("Loop error", "error"), StatusEvent(Idle(status)),
            ExitLog("-2"), StatusEvent(status')>>)
  /\ UNCHANGED <<spawned, timers>>

\* one line of a stdout chunk after split('\n'): n >= 0 is a line holding the
\* marker LOOP n, -1 a non-blank line without it, -2 a blank line
StdoutLines == -2..MaxIter

\* the chunks a child writes: one line, or two (a marker then a plain line, a
\* blank line then a marker, two markers)
StdoutChunks ==
  {<<a>> : a \in StdoutLines} \cup {<<MaxIter, -1>>, <<-2, MaxIter>>, <<MaxIter, 0>>}

\* the log of the stdout handler for line n: its content is the line
StdoutLog(n) == LogEvent(<<"stdout", ToString(n)>>, "info")

\* (mutant) a stdout handler that emits the log of a marker line before the
\* status
RECURSIVE StdoutRunLogFirst(_, _)
StdoutRunLogFirst(s, lines) ==
  IF lines = <<>> THEN [status |-> s, evs |-> <<>>]
  ELSE LET n == Head(lines)
           s1 == IF n >= 0 THEN [s EXCEPT !.iteration = n] ELSE s
           here == IF n = -2 THEN <<>>
                   ELSE IF n >= 0
                        THEN <<StdoutLog(n), StatusEvent(s1)>>
                        ELSE <<StdoutLog(n)>>
           rest == StdoutRunLogFirst(s1, Tail(lines))
       IN [status |-> rest.status, evs |-> here \o rest.evs]

\* lines.forEach of the stdout handler from status s on: the status reached
\* and the events emitted, blank lines filtered out
RECURSIVE StdoutRun(_, _)
StdoutRun(s, lines) ==
  IF lines = <<>> THEN [status |-> s, evs |-> <<>>]
  ELSE LET n == Head(lines)
           s1 == IF n >= 0 THEN [s EXCEPT !.iteration = n] ELSE s
           here == IF n = -2 THEN <<>>
                   ELSE IF n >= 0
                        THEN <<StatusEvent(s1), StdoutLog(n)>>
                        ELSE <<StdoutLog(n)>>
           rest == StdoutRun(s1, Tail(lines))
       IN [status |-> rest.status, evs |-> here \o rest.evs]

\* the stdout 'data' handler for one chunk
StdoutData(c, chunk) ==
  /\ UNCHANGED notSup
  /\ child[c].st = "alive"
  /\ status' = StdoutRun(status, chunk).status
  /\ Emit(StdoutRun(status, chunk).evs)
  /\ UNCHANGED <<process, child, spawned, timers>>

\* the chunks a child writes to its standard error: the same lines
StderrChunks == StdoutChunks

\* the log of the stderr handler for line n: its content is the line
StderrLog(n) == LogEvent(<<"stderr", ToString(n)>>, "error")

\* (mutant) a stderr handler that reads the marker as the stdout handler does
StderrReadsMarker(c, chunk) ==
  /\ UNCHANGED notSup
  /\ child[c].st = "alive"
  /\ status' = StdoutRun(status, chunk).status
  /\ Emit([i \in 1..Len(SelectSeq(chunk, LAMBDA n : n # -2)) |->
             StderrLog(SelectSeq(chunk, LAMBDA n : n # -2)[i])])
  /\ UNCHANGED <<process, child, spawned, timers>>

\* the stderr 'data' handler for one chunk: an error log per non-blank line
StderrData(c, chunk) ==
  /\ UNCHANGED notSup
  /\ child[c].st = "alive"
  /\ Emit([i \in 1..Len(SelectSeq(chunk, LAMBDA n : n # -2)) |->
             StderrLog(SelectSeq(chunk, LAMBDA n : n # -2)[i])])
  /\ UNCHANGED supVars

(* ------------------------------------------------------------- log tailer *)
\* the characters a log file is written with
Chars == {"a", " ", "\n"}

\* what one write appends: part of a line, the end of a line, a whole line,
\* a blank line
Chunks == {<<"a">>, <<"\n">>, <<"a", "\n">>, <<" ", "\n">>}

\* String.prototype.split('\n'): the pieces between the newlines, the empty
\* ones included
RECURSIVE Split(_)
Split(s) ==
  LET nl == {i \in 1..Len(s) : s[i] = "\n"}
  IN IF nl = {} THEN <<s>>
     ELSE LET i == CHOOSE k \in nl : \A j \in nl : k <= j
          IN <<SubSeq(s, 1, i - 1)>> \o Split(SubSeq(s, i + 1, Len(s)))

\* white space as String.prototype.trim() sees it
IsSpace(ch) == ch \in {" ", "\n", "\t", "\r"}

\* line.trim()
RECURSIVE Trim(_)
Trim(s) ==
  IF s = <<>> THEN s
  ELSE IF IsSpace(Head(s)) THEN Trim(Tail(s))
  ELSE IF IsSpace(s[Len(s)]) THEN Trim(SubSeq(s, 1, Len(s) - 1))
  ELSE s

\* newContent.split('\n').filter((line) => line.trim())
LogLines(s) == SelectSeq(Split(s), LAMBDA l : Trim(l) # <<>>)

\* toLowerCase() of one character
Lower(ch) ==
  CASE ch = "E" -> "e" [] ch = "R" -> "r" [] ch = "O" -> "o" [] ch = "W" -> "w"
    [] ch = "A" -> "a" [] ch = "N" -> "n" [] ch = "I" -> "i" [] ch = "G" -> "g"
    [] ch = "F" -> "f" [] ch = "L" -> "l" [] ch = "S" -> "s" [] ch = "U" -> "u"
    [] ch = "C" -> "c" [] ch = "M" -> "m" [] ch = "P" -> "p" [] ch = "T" -> "t"
    [] ch = "X" -> "x" [] ch = "B" -> "b" [] ch = "D" -> "d"
    [] OTHER -> ch

ToLower(s) == [i \in 1..Len(s) |-> Lower(s[i])]

\* String.prototype.includes
Includes(s, k) ==
  \E i \in 0..(Len(s) - Len(k)) : SubSeq(s, i + 1, i + Len(k)) = k

\* (mutant) a classifier that tests the success words first
classifySuccessFirst(line) ==
  LET lower == ToLower(line)
  IN IF \/ Includes(lower, <<"s", "u", "c", "c", "e", "s", "s">>)
        \/ Includes(lower, <<"c", "o", "m", "p", "l", "e", "t", "e">>)
        \/ Includes(lower, <<"p", "a", "s", "s">>)
     THEN "success"
     ELSE IF \/ Includes(lower, <<"e", "r", "r", "o", "r">>)
             \/ Includes(lower, <<"f", "a", "i", "l">>)
             \/ Includes(lower, <<"e", "x", "c", "e", "p", "t", "i", "o", "n">>)
     THEN "error"
     ELSE IF Includes(lower, <<"w", "a", "r", "n">>)
     THEN "warning"
     ELSE "info"

\* classifyLogLine(line)
classifyLogLine(line) ==
  LET lower == ToLower(line)
  IN IF \/ Includes(lower, <<"e", "r", "r", "o", "r">>)
        \/ Includes(lower, <<"f", "a", "i", "l">>)
        \/ Includes(lower, <<"e", "x", "c", "e", "p", "t", "i", "o", "n">>)
     THEN "error"
     ELSE IF \/ Includes(lower, <<"w", "a", "r", "n", "i", "n", "g">>)
             \/ Includes(lower, <<"w", "a", "r", "n">>)
     THEN "warning"
     ELSE IF \/ Includes(lower, <<"s", "u", "c", "c", "e", "s", "s">>)
             \/ Includes(lower, <<"c", "o", "m", "p", "l", "e", "t", "e">>)
             \/ Includes(lower, <<"p", "a", "s", "s">>)
     THEN "success"
     ELSE "info"

\* what the lines handed to the classifier are made of: the keywords in
\* lower, upper and mixed case, and other text
LinePieces ==
  { <<"e", "r", "r", "o", "r">>,
    <<"F", "A", "I", "L">>,
    <<"E", "x", "c", "e", "p", "t", "i", "o", "n">>,
    <<"w", "a", "r", "n", "i", "n", "g">>,
    <<"W", "a", "r", "n">>,
    <<"S", "U", "C", "C", "E", "S", "S">>,
    <<"c", "o", "m", "p", "l", "e", "t", "e">>,
    <<"P", "a", "s", "s">>,
    <<"E", "R", "R", "O", "R">>,
    <<"x">>,
    <<" ">> }

\* the lines of at most n pieces
RECURSIVE LinesOf(_)
LinesOf(n) ==
  IF n = 0 THEN {<<>>}
  ELSE LinesOf(n - 1) \cup {l \o q : l \in LinesOf(n - 1), q \in LinePieces}

\* four lines a log may hold
LineError == 
  <<"E", "r", "r", "o", "r", ":", " ", "c", "o", "n", "n", "e",
      "c", "t", "i", "o", "n", " ", "f", "a", "i", "l", "e", "d">>
LineWarning == 
  <<"W", "A", "R", "N", "I", "N", "G", ":", " ", "r", "e", "t",
      "r", "y", "i", "n", "g">>
LineSucceeded == 
  <<"B", "u", "i", "l", "d", " ", "s", "u", "c", "c", "e", "e",
      "d", "e", "d">>
LineStarting == 
  <<"s", "t", "a", "r", "t", "i", "n", "g", " ", "s", "t", "e",
      "p", " ", "3">>

SampleLines == {LineError, LineWarning, LineSucceeded, LineStarting}

\* type: this.classifyLogLine(line) for one line of the log
Classify(line) ==
  /\ logLine' = line
  /\ logType' = classifyLogLine(line)
  /\ UNCHANGED <<supVars, tailVars, fwVars, connVars, docVars, extVars>>
  /\ Silent

\* the entries tailLog emits for the lines of newContent
TailEntries(s) ==
  LET ls == LogLines(s)
  IN [i \in 1..Len(ls) |-> LogEvent(ls[i], classifyLogLine(ls[i]))]

\* handle.read(buffer, 0, len, pos) into Buffer.alloc(len): the bytes of the
\* file from pos on, and zero bytes where the file has no more
ReadAt(f, pos, len) ==
  [i \in 1..len |-> IF pos + i <= Len(f) THEN f[pos + i] ELSE "\\0"]

\* a write to ralph.log by the loop: it appends, creating the file
LogAppend(chunk) ==
  /\ UNCHANGED notTail
  /\ UNCHANGED connVars
  /\ Silent
  /\ fileOps < MaxFileOps
  /\ fileOps' = fileOps + 1
  /\ logExists' = TRUE
  /\ logFile' = logFile \o chunk
  /\ notifs' = Min(notifs + 1, MaxTails)
  /\ raced' = (raced \/ tails # <<>>)
  /\ UNCHANGED <<lastLogPosition, tails, resets, emitted, caught>>

\* the log is truncated to length 0 (rotation); chokidar reports a change
LogTruncate ==
  /\ UNCHANGED notTail
  /\ UNCHANGED connVars
  /\ Silent
  /\ fileOps < MaxFileOps
  /\ logExists
  /\ Len(logFile) > 0
  /\ fileOps' = fileOps + 1
  /\ logFile' = <<>>
  /\ resets' = Min(resets + 1, 1)
  /\ notifs' = Min(notifs + 1, MaxTails)
  /\ raced' = (raced \/ tails # <<>>)
  /\ UNCHANGED <<logExists, lastLogPosition, tails, emitted, caught>>

\* the log is removed; 'unlink' has no handler
LogDelete ==
  /\ UNCHANGED notTail
  /\ UNCHANGED connVars
  /\ Silent
  /\ fileOps < MaxFileOps
  /\ logExists
  /\ fileOps' = fileOps + 1
  /\ logExists' = FALSE
  /\ logFile' = <<>>
  /\ resets' = Min(resets + 1, 1)
  /\ raced' = (raced \/ tails # <<>>)
  /\ UNCHANGED <<notifs, lastLogPosition, tails, emitted, caught>>

\* the 'add' / 'change' callback: tailLog() runs up to its await of fs.stat
TailStart ==
  /\ UNCHANGED notTail
  /\ UNCHANGED connVars
  /\ Silent
  /\ notifs > 0
  /\ Len(tails) < MaxTails
  /\ notifs' = notifs - 1
  /\ tails' = Append(tails, [pc |-> "stat", size |-> 0, pos |-> 0, buf |-> <<>>])
  /\ raced' = (raced \/ tails # <<>>)
  /\ UNCHANGED <<logExists, logFile, lastLogPosition, fileOps, resets, emitted, caught>>

Without(seq, i) == SubSeq(seq, 1, i - 1) \o SubSeq(seq, i + 1, Len(seq))

\* (mutant) a catch that leaves the stored offset
TailCatchKeepsOffset(i) ==
  /\ UNCHANGED lastLogPosition
  /\ tails' = Without(tails, i)
  /\ caught' = "pending"

\* catch { this.lastLogPosition = 0 }: the invocation ends
TailCatch(i) ==
  /\ lastLogPosition' = 0
  /\ tails' = Without(tails, i)
  /\ caught' = "pending"

\* fs.stat resolves: the size test against the offset as it is now
TailStat(i) ==
  /\ UNCHANGED notTail
  /\ tails[i].pc = "stat"
  /\ IF ~logExists THEN TailCatch(i)
     ELSE IF Len(logFile) > lastLogPosition
     THEN /\ tails' = [tails EXCEPT ![i].pc = "open", ![i].size = Len(logFile)]
          /\ UNCHANGED <<lastLogPosition, caught>>
     ELSE /\ tails' = Without(tails, i)
          /\ UNCHANGED <<lastLogPosition, caught>>
  /\ Emit(<<>>)
  /\ UNCHANGED <<logExists, logFile, notifs, fileOps, resets, emitted, raced>>

\* fs.open resolves: Buffer.alloc(stat.size - lastLogPosition), which throws
\* on a negative size, and the read is issued at the offset as it is now
TailOpen(i) ==
  /\ UNCHANGED notTail
  /\ tails[i].pc = "open"
  /\ IF ~logExists \/ tails[i].size - lastLogPosition < 0 THEN TailCatch(i)
     ELSE /\ tails' = [tails EXCEPT ![i].pc = "read", ![i].pos = lastLogPosition,
                         ![i].buf = [k \in 1..(tails[i].size - lastLogPosition) |-> "\\0"]]
          /\ UNCHANGED <<lastLogPosition, caught>>
  /\ Emit(<<>>)
  /\ UNCHANGED <<logExists, logFile, notifs, fileOps, resets, emitted, raced>>

\* handle.read resolves with the bytes the file holds then
TailRead(i) ==
  /\ UNCHANGED notTail
  /\ tails[i].pc = "read"
  /\ tails' = [tails EXCEPT ![i].pc = "close",
                 ![i].buf = ReadAt(logFile, tails[i].pos, Len(tails[i].buf))]
  /\ Emit(<<>>)
  /\ UNCHANGED <<logExists, logFile, lastLogPosition, notifs, fileOps, resets, emitted, raced,
                  caught>>

\* handle.close resolves: split, emit every line, store stat.size
TailEmit(i) ==
  /\ UNCHANGED notTail
  /\ tails[i].pc = "close"
  /\ Emit(TailEntries(tails[i].buf))
  /\ lastLogPosition' = tails[i].size
  /\ tails' = Without(tails, i)
  /\ emitted' = Append(emitted, [from |-> tails[i].pos,
                                 to |-> tails[i].pos + Len(tails[i].buf),
                                 lines |-> LogLines(tails[i].buf)])
  /\ caught' = IF caught = "pending" THEN "served" ELSE caught
  /\ UNCHANGED <<logExists, logFile, notifs, fileOps, resets, raced>>

(* ------------------------------------------------- checklist and git poll *)
\* the texts IMPLEMENTATION_PLAN.md is written with:
\* "- [ ] a\n- [x] b\n",  "# t\n-[X]b",  "- [x]\n-  [ ]  a \n"
PlanTexts ==
  { <<"-", " ", "[", " ", "]", " ", "a", "\n", "-", " ", "[", "x", "]", " ", "b", "\n">>,
    <<"-", " ", "[", "x", "]", "\n", "-", " ", " ", "[", " ", "]", " ", " ", "a", " ", "\n">> }

\* number of leading characters of s that \s matches
RECURSIVE LeadingSpaces(_)
LeadingSpaces(s) ==
  IF s # <<>> /\ IsSpace(Head(s)) THEN 1 + LeadingSpaces(Tail(s)) ELSE 0

Drop(s, n) == SubSeq(s, n + 1, Len(s))

\* what . matches: anything but a line terminator
IsDot(ch) == ch \notin {"\n", "\r"}

\* line.match(/^-\s*\[([ xX])\]\s*(.+)$/): the two groups, or no match
MatchTask(line) ==
  IF line = <<>> \/ Head(line) # "-" THEN [ok |-> FALSE]
  ELSE LET a == Drop(line, 1 + LeadingSpaces(Tail(line)))
       IN IF Len(a) < 3 \/ a[1] # "[" \/ a[2] \notin {" ", "x", "X"} \/ a[3] # "]"
          THEN [ok |-> FALSE]
          ELSE LET rest == Drop(a, 3)
                   \* \s* is greedy and gives back until .+ has a character
                   ks == {k \in 0..LeadingSpaces(rest) :
                            /\ k < Len(rest)
                            /\ \A i \in (k + 1)..Len(rest) : IsDot(rest[i])}
               IN IF ks = {} THEN [ok |-> FALSE]
                  ELSE [ok |-> TRUE, mark |-> a[2],
                        text |-> Drop(rest, CHOOSE k \in ks : \A j \in ks : j <= k)]

\* (mutant) a Task that is completed only for a lower-case x
TaskOfLowerX(line, index) ==
  [id |-> <<"task-", index>>,
   content |-> Trim(MatchTask(line).text),
   completed |-> MatchTask(line).mark = "x"]

\* the Task pushed for line number index (from 0), its id task-<index>
TaskOf(line, index) ==
  [id |-> <<"task-", index>>,
   content |-> Trim(MatchTask(line).text),
   completed |-> Lower(MatchTask(line).mark) = "x"]

\* the TasksState parseTasks builds from the text of the plan
ParsePlan(content) ==
  LET lines == Split(content)
      hits == {i \in 1..Len(lines) : MatchTask(lines[i]).ok}
      \* the i-th matching line, in source order
      nth[i \in 1..Cardinality(hits)] ==
        CHOOSE k \in hits : Cardinality({j \in hits : j < k}) = i - 1
      ts == [i \in 1..Cardinality(hits) |-> TaskOf(lines[nth[i]], nth[i] - 1)]
  IN [tasks |-> ts,
      completed |-> Cardinality({i \in 1..Len(ts) : ts[i].completed}),
      total |-> Len(ts)]

\* the plan "- [ ] write tests\n- [x] build core\n"
PlanExample ==
  <<"-", " ", "[", " ", "]", " ", "w", "r", "i", "t", "e", " ",
      "t", "e", "s", "t", "s", "\n", "-", " ", "[", "x", "]", " ",
      "b", "u", "i", "l", "d", " ", "c", "o", "r", "e", "\n">>

\* lines a plan is written with: open and done items, no space after the
\* dash, an upper-case X, blanks only or nothing after the bracket, a
\* heading, an indented item, blanks around the text
PlanLines ==
  { <<"-", " ", "[", " ", "]", " ", "a">>,
    <<"-", " ", "[", "x", "]", " ", "b">>,
    <<"-", "[", "X", "]", "b">>,
    <<"-", " ", "[", "x", "]", " ">>,
    <<"-", " ", "[", "x", "]">>,
    <<"#", " ", "t">>,
    <<" ", "-", " ", "[", " ", "]", " ", "a">>,
    <<"-", " ", " ", "[", " ", "]", " ", " ", "a", " ">> }

\* the texts of at most n lines, each ended by a newline
RECURSIVE PlansOf(_)
PlansOf(n) ==
  IF n = 0 THEN {<<>>}
  ELSE PlansOf(n - 1) \cup {t \o l \o <<"\n">> : t \in PlansOf(n - 1), l \in PlanLines}

\* the contents IMPLEMENTATION_PLAN.md is found with when the watcher starts
PlanInputs == (PlansOf(MaxPlanLines) \ {<<>>}) \cup PlanTexts \cup {PlanExample}

\* TasksState as constructed
InitTasks == [tasks |-> <<>>, completed |-> 0, total |-> 0]

\* the plan file is (re)written; chokidar reports 'add' or 'change'
PlanWrite(text) ==
  /\ planFile # text
  /\ planFile' = text
  /\ planNotifs' = 1
  /\ UNCHANGED <<tasks, gitStatus, notFw, connVars>>
  /\ Silent

\* parseTasks() once readFile has resolved: parse, store, emit 'tasks'
ParseTasks ==
  /\ planNotifs > 0
  /\ planNotifs' = planNotifs - 1
  /\ tasks' = ParsePlan(planFile)
  /\ Emit(<<[type |-> "tasks:update", payload |-> tasks']>>)
  /\ UNCHANGED <<planFile, gitStatus, notFw>>

\* GitStatus as constructed
InitGit == [branch |-> "main", uncommittedCount |-> 0, commits |-> 0, remoteUrl |-> "undefined"]

\* what the four git queries of one poll return (commits: how many of the
\* last 10 exist; remoteUrl: "undefined" when there is no remote origin)
GitResults ==
  { [branch |-> "main", uncommittedCount |-> 1, commits |-> 1, remoteUrl |-> "origin"],
    [branch |-> "dev", uncommittedCount |-> 0, commits |-> 1, remoteUrl |-> "undefined"] }

\* the queries of one poll, in the order they are awaited
GitQueries == <<"branch", "status", "log", "getRemotes">>

\* how a poll goes: every query resolves ("none"), or one of them rejects
GitFailures == {"none"} \cup {GitQueries[i] : i \in 1..Len(GitQueries)}

\* (mutant) a poll that stores the branch as soon as the first query resolved
UpdateGitStatusPartial(fail, res) ==
  /\ IF fail = "none"
     THEN /\ gitStatus' = res
          /\ Emit(<<[type |-> "git:update", payload |-> res]>>)
     ELSE /\ gitStatus' = [gitStatus EXCEPT !.branch = IF fail = "branch" THEN @ ELSE res.branch]
          /\ Emit(<<>>)
  /\ UNCHANGED <<planFile, planNotifs, tasks, notFw>>

\* updateGitStatus(): when every query resolves the status is replaced by the
\* new object and emitted; when one rejects, the catch does nothing
UpdateGitStatus(fail, res) ==
  /\ IF fail = "none"
     THEN /\ gitStatus' = res
          /\ Emit(<<[type |-> "git:update", payload |-> res]>>)
     ELSE /\ UNCHANGED gitStatus
          /\ Emit(<<>>)
  /\ UNCHANGED <<planFile, planNotifs, tasks, notFw>>

(* ------------------------------------------------------------------- hub *)
getTasks == tasks

getGitStatus == gitStatus

\* projectConfig.getConfig(): a copy of the configuration
getConfig == config

\* the four ws.send calls of the connection handler
Snapshots ==
  << [type |-> "loop:status", payload |-> getStatus],
     [type |-> "tasks:update", payload |-> getTasks],
     [type |-> "git:update", payload |-> getGitStatus],
     [type |-> "config:update", payload |-> getConfig] >>

\* messages msgs to socket c and nothing to the others
Unicast(c, msgs) == [d \in Sockets |-> IF d = c THEN msgs ELSE <<>>]

\* (mutant) a connection handler that registers the socket and leaves the
\* initial state for later
ConnectBare(c) ==
  /\ ready[c] = "none"
  /\ clients' = clients \cup {c}
  /\ ready' = [ready EXCEPT ![c] = "OPEN"]
  /\ Send(Unicast(c, <<>>))
  /\ UNCHANGED <<out, lastBcast, supVars, tailVars, fwVars, docVars, clsVars, extVars>>

\* (mutant) a connection handler that sends the initial state to every open
\* socket of the set
ConnectBroadcasts(c) ==
  /\ ready[c] = "none"
  /\ clients' = clients \cup {c}
  /\ ready' = [ready EXCEPT ![c] = "OPEN"]
  /\ Send([d \in Sockets |->
            IF d = c \/ (d \in clients /\ ready[d] = "OPEN") THEN Snapshots ELSE <<>>])
  /\ UNCHANGED <<out, lastBcast, supVars, tailVars, fwVars, docVars, clsVars, extVars>>

\* wss.on('connection'): add the socket to the set and send it the state
Connect(c) ==
  /\ ready[c] = "none"
  /\ clients' = clients \cup {c}
  /\ ready' = [ready EXCEPT ![c] = "OPEN"]
  /\ Send(Unicast(c, Snapshots))
  /\ UNCHANGED <<out, lastBcast, supVars, tailVars, fwVars, docVars, clsVars, extVars>>

\* the connection ends: readyState leaves OPEN before 'close' is emitted
SocketClose(c) ==
  /\ ready[c] = "OPEN"
  /\ ready' = [ready EXCEPT ![c] = "CLOSED"]
  /\ UNCHANGED <<clients, sent, first, out, lastBcast, supVars, tailVars, fwVars, docVars, clsVars, extVars>>

\* ws.on('close'): the socket leaves the set (and is garbage)
OnClose(c) ==
  /\ ready[c] = "CLOSED"
  /\ clients' = clients \ {c}
  /\ ready' = [ready EXCEPT ![c] = "none"]
  /\ Send(Unicast(c, <<>>))
  /\ UNCHANGED <<out, lastBcast, supVars, tailVars, fwVars, docVars, clsVars, extVars>>

(* ------------------------------------------------------ observer commands *)
\* CLAUDE.md, the document toggleAgent rewrites
ClaudeMd == <<"C">>

\* the document names observers send: CLAUDE.md, a plain name, a name in a
\* directory, names that contain '..' and an absolute one
DocNames ==
  { ClaudeMd, <<"a">>, <<"a", "/", "a">>, <<".", ".", "/", "a">>,
    <<"a", "/", ".", ".">>, <<"a", ".", ".", "a">>, <<"/", "a">> }

\* path.isAbsolute(filename), POSIX
isAbsolute(name) == name # <<>> /\ name[1] = "/"

\* the test readFile() and writeFile() begin with
InvalidFilename(name) == Includes(name, <<".", ".">>) \/ isAbsolute(name)

\* path.dirname of a name below the project path
RECURSIVE Dirname(_)
Dirname(name) ==
  IF name = <<>> THEN <<>>
  ELSE IF name[Len(name)] = "/" THEN SubSeq(name, 1, Len(name) - 1)
  ELSE Dirname(SubSeq(name, 1, Len(name) - 1))

\* the file-system calls of writeFile(name) up to the one that fails
WriteOps(name, fail) ==
  IF fail = "mkdir" THEN <<[op |-> "mkdir", path |-> Dirname(name)]>>
  ELSE <<[op |-> "mkdir", path |-> Dirname(name)], [op |-> "writeFile", path |-> name]>>

\* refresh(): the configuration as the file system shows it
Refreshed(files) == [files |-> files]

\* (mutant) a catch that drops the socket the command came from
CaughtDrops(c) ==
  /\ clients' = clients \ {c}
  /\ ready' = [ready EXCEPT ![c] = "CLOSED"]
  /\ UNCHANGED <<out, lastBcast>>
  /\ Send(Unicast(c, <<>>))

\* the catch of the message handler: console.error and nothing else
Caught(c) ==
  /\ UNCHANGED <<out, lastBcast, connVars>>
  /\ Send(Unicast(c, <<>>))

\* ws.send of a reply to the socket the command came from
Reply(c, msg) ==
  /\ UNCHANGED <<out, lastBcast, connVars>>
  /\ Send(Unicast(c, <<msg>>))

\* a command of socket c as the handler parsed it
Command(c, type, file) == [from |-> c, type |-> type, file |-> file]

\* a message JSON.parse throws on
Malformed(c) ==
  /\ ready[c] = "OPEN"
  /\ cmd' = Command(c, "malformed", <<>>)
  /\ fsOps' = <<>>
  /\ Caught(c)
  /\ UNCHANGED <<docs, config, supVars, tailVars, fwVars, clsVars, extVars>>

\* case 'config:read'
ConfigRead(c, name) ==
  /\ ready[c] = "OPEN"
  /\ cmd' = Command(c, "config:read", name)
  /\ IF InvalidFilename(name)
     THEN fsOps' = <<>> /\ Caught(c)
     ELSE /\ fsOps' = <<[op |-> "readFile", path |-> name]>>
          /\ IF name \in docs
             THEN Reply(c, [type |-> "config:content", payload |-> [file |-> name]])
             ELSE Caught(c)
  /\ UNCHANGED <<docs, config, supVars, tailVars, fwVars, clsVars, extVars>>

\* (mutant) a config:write that does not test the name
ConfigWriteUnchecked(c, name, fail) ==
  /\ ready[c] = "OPEN"
  /\ cmd' = Command(c, "config:write", name)
  /\ fsOps' = WriteOps(name, fail)
  /\ IF fail = "none"
     THEN /\ docs' = docs \cup {name}
          /\ config' = Refreshed(docs')
          /\ Reply(c, [type |-> "config:saved", payload |-> [file |-> name]])
     ELSE Caught(c) /\ UNCHANGED <<docs, config>>
  /\ UNCHANGED <<supVars, tailVars, fwVars, clsVars, extVars>>

\* case 'config:write'; fail names the file-system call that fails
ConfigWrite(c, name, fail) ==
  /\ ready[c] = "OPEN"
  /\ cmd' = Command(c, "config:write", name)
  /\ IF InvalidFilename(name)
     THEN fsOps' = <<>> /\ Caught(c) /\ UNCHANGED <<docs, config>>
     ELSE /\ fsOps' = WriteOps(name, fail)
          /\ IF fail = "none"
             THEN /\ docs' = docs \cup {name}
                  /\ config' = Refreshed(docs')
                  /\ Reply(c, [type |-> "config:saved", payload |-> [file |-> name]])
             ELSE Caught(c) /\ UNCHANGED <<docs, config>>
  /\ UNCHANGED <<supVars, tailVars, fwVars, clsVars, extVars>>

\* case 'agents:toggle': toggleAgent() reads and rewrites CLAUDE.md
AgentsToggle(c, known, fail) ==
  /\ ready[c] = "OPEN"
  /\ cmd' = Command(c, "agents:toggle", <<>>)
  /\ IF ~known
     THEN fsOps' = <<>> /\ Caught(c) /\ UNCHANGED <<docs, config>>
     ELSE IF ClaudeMd \notin docs
     THEN /\ fsOps' = <<[op |-> "readFile", path |-> ClaudeMd]>>
          /\ Caught(c)
          /\ UNCHANGED <<docs, config>>
     ELSE /\ fsOps' = <<[op |-> "readFile", path |-> ClaudeMd]>> \o WriteOps(ClaudeMd, fail)
          /\ IF fail = "none"
             THEN /\ config' = Refreshed(docs)
                  /\ Emit(<<[type |-> "agents:update", payload |-> "enabledAgents"]>>)
             ELSE Caught(c) /\ UNCHANGED config
          /\ UNCHANGED docs
  /\ UNCHANGED <<supVars, tailVars, fwVars, clsVars, extVars>>

(* --------------------------------------------------------------- observer *)
\* prev.slice(-n): the last n elements of prev (all of them when it has fewer)
SliceLast(prev, n) ==
  IF Len(prev) <= n THEN prev ELSE SubSeq(prev, Len(prev) - n + 1, Len(prev))

\* onmessage, case 'loop:log': setLogs(prev => [...prev.slice(-500), payload])
LogReceived ==
  /\ received < MaxReceived
  /\ received' = received + 1
  /\ logs' = Append(SliceLast(logs, LogKeep), received + 1)
  /\ UNCHANGED <<serverVars, notObs>>
  /\ Silent

(* ------------------------------------------------------ stopping the watcher *)
\* FileWatcher.stop(): both chokidar watchers are closed; the interval of
\* start() is not held anywhere and keeps running
FwStop ==
  /\ watching
  /\ watching' = FALSE
  /\ Emit(<<>>)
  /\ UNCHANGED <<serverVars, obsVars, prdVars, hookVars, serverUp>>

(* ---------------------------------------------------------------- shutdown *)
\* process.on('SIGINT'): fileWatcher.stop(), loopController.stop(),
\* server.close(), process.exit(0). The timer stop() armed dies with the
\* process, as does every other timer.
Shutdown ==
  /\ serverUp
  /\ serverUp' = FALSE
  /\ watching' = FALSE
  /\ timers' = <<>>
  /\ IF process = 0
     THEN /\ Emit(<<SupLog("No loop running", "warning")>>)
          /\ UNCHANGED child
     ELSE /\ Emit(<<SupLog("Stopping loop...", "info")>>)
          /\ child' = [Kill(child, process, "SIGINT") EXCEPT
                         ![process].sinceStop = IF @ < 0 THEN 0 ELSE @]
  /\ UNCHANGED <<process, status, spawned>>
  /\ UNCHANGED <<tailVars, fwVars, docVars, clsVars, obsVars, prdVars, hookVars>>

\* a child ends after the server has exited: no handler is left to run
OrphanExit(c) ==
  /\ ~serverUp
  /\ child[c].st = "alive"
  /\ child' = [child EXCEPT ![c].st = "closed"]
  /\ UNCHANGED <<process, status, spawned, timers>>
  /\ UNCHANGED <<tailVars, fwVars, connVars, docVars, clsVars, extVars>>
  /\ Silent

(* ------------------------------------------------------------ observer hook *)
HookSockets == 1..MaxHookSockets

\* connect(): nothing while the WebSocket held is OPEN; else a new WebSocket,
\* which becomes the one held
HookConnect ==
  IF wsRef # 0 /\ hookSock[wsRef] = "OPEN"
  THEN UNCHANGED <<wsRef, hookSock, opened>>
  ELSE /\ opened < MaxHookSockets
       /\ opened' = opened + 1
       /\ hookSock' = [hookSock EXCEPT ![opened + 1] = "CONNECTING"]
       /\ wsRef' = opened + 1

\* the effect runs: connect()
HookMount ==
  /\ hookPhase = "new"
  /\ hookPhase' = "mounted"
  /\ HookConnect
  /\ UNCHANGED <<armed, pending, timeoutRef>>
  /\ UNCHANGED <<serverVars, notHook>>
  /\ Silent

\* ws.onopen: the timer of the ref is cleared and the ref set to null
SockOpen(w) ==
  /\ hookSock[w] = "CONNECTING"
  /\ hookSock' = [hookSock EXCEPT ![w] = "OPEN"]
  /\ pending' = pending \ {timeoutRef}
  /\ timeoutRef' = 0
  /\ UNCHANGED <<hookPhase, wsRef, opened, armed>>
  /\ UNCHANGED <<serverVars, notHook>>
  /\ Silent

\* the WebSocket closes (the connection failed or was lost, onerror called
\* ws.close(), or a close() completed): ws.onclose arms a reconnect timer and
\* stores it in the ref
SockClose(w) ==
  /\ hookSock[w] \in {"CONNECTING", "OPEN", "CLOSING"}
  /\ hookSock' = [hookSock EXCEPT ![w] = "CLOSED"]
  /\ armed < MaxHookSockets
  /\ armed' = armed + 1
  /\ pending' = pending \cup {armed + 1}
  /\ timeoutRef' = armed + 1
  /\ UNCHANGED <<hookPhase, wsRef, opened>>
  /\ UNCHANGED <<serverVars, notHook>>
  /\ Silent

\* a reconnect timer fires: connect()
ReconnectFire(t) ==
  /\ t \in pending
  /\ pending' = pending \ {t}
  /\ HookConnect
  /\ UNCHANGED <<hookPhase, armed, timeoutRef>>
  /\ UNCHANGED <<serverVars, notHook>>
  /\ Silent

\* the cleanup of the effect: clearTimeout of the ref, close() of the
\* WebSocket held
HookCleanup ==
  /\ hookPhase = "mounted"
  /\ hookPhase' = "cleaned"
  /\ pending' = pending \ {timeoutRef}
  /\ hookSock' = IF wsRef # 0 /\ hookSock[wsRef] \in {"CONNECTING", "OPEN"}
                 THEN [hookSock EXCEPT ![wsRef] = "CLOSING"]
                 ELSE hookSock
  /\ UNCHANGED <<wsRef, opened, armed, timeoutRef>>
  /\ UNCHANGED <<serverVars, notHook>>
  /\ Silent

(* ---------------------------------------------------------- PRD generator *)
PrdChildren == 1..MaxPrd

\* PRDGeneratorStatus as constructed, and as every handler resets it
PrdIdle == [generating |-> FALSE, startedAt |-> 0]

PrdStatusEvent(s) == [type |-> "prd:status", payload |-> s]

PrdErrorEvent(text) == [type |-> "prd:error", payload |-> text]

\* generatePRD(options) up to its await of the prompt file: it throws while
\* the status says generating, else it sets and publishes the status
GeneratePRD ==
  /\ prdCalls < MaxPrd
  /\ IF prdStatus.generating
     THEN /\ UNCHANGED prdVars
          /\ UNCHANGED connVars
          /\ Silent
     ELSE /\ prdCalls' = prdCalls + 1
          /\ prdStatus' = [generating |-> TRUE, startedAt |-> prdCalls + 1]
          /\ prdPending' = prdPending + 1
          /\ Emit(<<PrdStatusEvent(prdStatus')>>)
          /\ UNCHANGED <<prdProcess, prdChild, prdSpawned>>
  /\ UNCHANGED <<supVars, tailVars, fwVars, docVars, clsVars, notPrd>>

\* generatePRD after the prompt was read: this.process = spawn('claude', ...)
\* and the handlers are registered; ok = FALSE is a spawn that fails
PrdSpawn(ok) ==
  /\ prdPending > 0
  /\ prdSpawned < MaxPrd
  /\ prdPending' = prdPending - 1
  /\ prdSpawned' = prdSpawned + 1
  /\ prdProcess' = prdSpawned + 1
  /\ prdChild' = [prdChild EXCEPT ![prdSpawned + 1].st = IF ok THEN "alive" ELSE "failing"]
  /\ UNCHANGED <<prdStatus, prdCalls>>
  /\ UNCHANGED <<serverVars, notPrd>>
  /\ Silent

\* cancel(): when a handle is held, SIGTERM to it and the status reset; the
\* handle stays
PrdCancel ==
  /\ IF prdProcess # 0
     THEN /\ prdChild' = [prdChild EXCEPT ![prdProcess].terms =
                             IF prdChild[prdProcess].st = "alive" THEN 1 ELSE @]
          /\ prdStatus' = PrdIdle
          /\ Emit(<<PrdErrorEvent("PRD generation cancelled"), PrdStatusEvent(PrdIdle)>>)
     ELSE /\ UNCHANGED <<prdChild, prdStatus>>
          /\ UNCHANGED connVars
          /\ Silent
  /\ UNCHANGED <<prdProcess, prdSpawned, prdPending, prdCalls>>
  /\ UNCHANGED <<supVars, tailVars, fwVars, docVars, clsVars, notPrd>>

\* the 'close' handler of child c: status reset, this.process = null, then
\* 'complete' or 'error', then 'status'
PrdClose(c, code) ==
  /\ prdChild[c].st = "alive"
  /\ code \in (IF prdChild[c].terms > 0 THEN {"null"} ELSE {"0", "1"})
  /\ prdChild' = [prdChild EXCEPT ![c].st = "closed"]
  /\ prdStatus' = PrdIdle
  /\ prdProcess' = 0
  /\ Emit(<<IF code = "0" THEN [type |-> "prd:complete", payload |-> "documents"]
                          ELSE PrdErrorEvent("Process exited"),
            PrdStatusEvent(PrdIdle)>>)
  /\ UNCHANGED <<prdSpawned, prdPending, prdCalls>>
  /\ UNCHANGED <<supVars, tailVars, fwVars, docVars, clsVars, notPrd>>

\* a child whose spawn failed: the 'error' handler and then the 'close'
\* handler run
PrdError(c) ==
  /\ prdChild[c].st = "failing"
  /\ prdChild' = [prdChild EXCEPT ![c].st = "closed"]
  /\ prdStatus' = PrdIdle
  /\ prdProcess' = 0
  /\ Emit(<<PrdErrorEvent("spawn"), PrdStatusEvent(PrdIdle),
            PrdErrorEvent("Process exited"), PrdStatusEvent(PrdIdle)>>)
  /\ UNCHANGED <<prdSpawned, prdPending, prdCalls>>
  /\ UNCHANGED <<supVars, tailVars, fwVars, docVars, clsVars, notPrd>>

(* --------------------------------------------------------- specifications *)
InitButPlan ==
  /\ process = 0
  /\ status = InitStatus
  /\ child = [c \in Children |-> UnbornChild]
  /\ spawned = 0
  /\ timers = <<>>
  /\ out = <<>>
  /\ lastBcast = [status |-> InitStatus, tasks |-> InitTasks, git |-> InitGit]
  /\ tasks = InitTasks
  /\ gitStatus = InitGit
  /\ clients = {}
  /\ ready = [c \in Sockets |-> "none"]
  /\ sent = [c \in Sockets |-> <<>>]
  /\ first = [c \in Sockets |-> "nothing"]
  /\ logExists = FALSE
  /\ logFile = <<>>
  /\ lastLogPosition = 0
  /\ tails = <<>>
  /\ notifs = 0
  /\ fileOps = 0
  /\ resets = 0
  /\ emitted = <<>>
  /\ raced = FALSE
  /\ caught = "no"
  /\ cmd = Command(0, "none", <<>>)
  /\ docs = {}
  /\ fsOps = <<>>
  /\ config = [files |-> {}]
  /\ logLine = <<>>
  /\ logType = "info"
  /\ logs = <<>>
  /\ received = 0
  /\ prdProcess = 0
  /\ prdStatus = PrdIdle
  /\ prdChild = [c \in PrdChildren |-> [st |-> "unborn", terms |-> 0]]
  /\ prdSpawned = 0
  /\ prdPending = 0
  /\ prdCalls = 0
  /\ watching = TRUE
  /\ serverUp = TRUE
  /\ hookPhase = "new"
  /\ wsRef = 0
  /\ hookSock = [w \in HookSockets |-> "none"]
  /\ opened = 0
  /\ armed = 0
  /\ pending = {}
  /\ timeoutRef = 0

\* no plan file when the server starts
Init ==
  /\ InitButPlan
  /\ planFile = <<>>
  /\ planNotifs = 0

\* a plan file is there when the watcher starts: chokidar reports 'add'
ParseInit ==
  /\ InitButPlan
  /\ planFile \in PlanInputs
  /\ planNotifs = 1

SupNext ==
  \/ \E o \in StartOptions, ok \in BOOLEAN : Start(o, ok)
  \/ Stop
  \/ TimerFire
  \/ Tick
  \/ \E c \in Children : ChildError(c)
  \/ \E c \in Children, code \in {"0", "1", "null"} : ChildClose(c, code)
  \/ \E c \in Children, chunk \in StdoutChunks : StdoutData(c, chunk)
  \/ \E c \in Children, chunk \in StderrChunks : StderrData(c, chunk)

TailNext ==
  \/ \E chunk \in Chunks : LogAppend(chunk)
  \/ LogTruncate
  \/ LogDelete
  \/ TailStart
  \/ \E i \in 1..Len(tails) : TailStat(i)
  \/ \E i \in 1..Len(tails) : TailOpen(i)
  \/ \E i \in 1..Len(tails) : TailRead(i)
  \/ \E i \in 1..Len(tails) : TailEmit(i)

\* the supervisor and its child
Next == SupNext

Spec == Init /\ [][Next]_vars

\* the hub with its producers: the supervisor running a child, the
\* checklist parser and the git poll
HubNext ==
  \/ \E c \in Sockets : Connect(c)
  \/ \E c \in Sockets : SocketClose(c)
  \/ \E c \in Sockets : OnClose(c)
  \/ \E o \in StartOptions, ok \in BOOLEAN : Start(o, ok)
  \/ \E c \in Children : ChildError(c)
  \/ \E c \in Children, code \in {"0", "1", "null"} : ChildClose(c, code)
  \/ \E c \in Children, chunk \in StdoutChunks : StdoutData(c, chunk)
  \/ \E c \in Children, chunk \in StderrChunks : StderrData(c, chunk)
  \/ \E text \in PlanTexts : PlanWrite(text)
  \/ ParseTasks
  \/ \E fail \in GitFailures, res \in GitResults : UpdateGitStatus(fail, res)

HubSpec == Init /\ [][HubNext]_vars

\* the hub and the commands its observers send
DocNext ==
  \/ \E c \in Sockets : Connect(c)
  \/ \E c \in Sockets : SocketClose(c)
  \/ \E c \in Sockets : OnClose(c)
  \/ \E c \in Sockets : Malformed(c)
  \/ \E c \in Sockets, name \in DocNames : ConfigRead(c, name)
  \/ \E c \in Sockets, name \in DocNames, fail \in {"none", "mkdir", "writeFile"} :
       ConfigWrite(c, name, fail)
  \/ \E c \in Sockets, known \in BOOLEAN, fail \in {"none", "mkdir", "writeFile"} :
       AgentsToggle(c, known, fail)

DocSpec == Init /\ [][DocNext]_vars

\* the checklist parser applied to the plan found at start
ParseNext == ParseTasks

ParseSpec == ParseInit /\ [][ParseNext]_vars

\* the classifier applied to lines
ClassifyNext == \E line \in LinesOf(MaxPieces) \cup SampleLines : Classify(line)

ClassifySpec == Init /\ [][ClassifyNext]_vars

\* a callback of the supervisor, which runs only while the server does
ServerStep ==
  /\ serverUp
  /\ SupNext

\* time passes after the server has exited
OrphanTick ==
  /\ ~serverUp
  /\ Tick

\* the supervisor, its child and the SIGINT handler of the server
ShutNext ==
  \/ ServerStep
  \/ Shutdown
  \/ OrphanTick
  \/ \E c \in Children : OrphanExit(c)

ShutSpec == Init /\ [][ShutNext]_vars

\* the 'add' / 'change' callback of the log watcher, while it is open
WatchedTailStart ==
  /\ watching
  /\ TailStart

\* the file watcher: the log and its tails, the git poll of the interval, and
\* stop(); chokidar delivers notifications only while the watchers are open
WatchNext ==
  \/ \E chunk \in Chunks : LogAppend(chunk)
  \/ LogTruncate
  \/ LogDelete
  \/ WatchedTailStart
  \/ \E i \in 1..Len(tails) : TailStat(i)
  \/ \E i \in 1..Len(tails) : TailOpen(i)
  \/ \E i \in 1..Len(tails) : TailRead(i)
  \/ \E i \in 1..Len(tails) : TailEmit(i)
  \/ \E fail \in GitFailures, res \in GitResults : UpdateGitStatus(fail, res)
  \/ FwStop

WatchSpec == Init /\ [][WatchNext]_vars

\* ws.onmessage with a loop:log message, on a WebSocket that is open
HookLogReceived ==
  /\ \E w \in HookSockets : hookSock[w] = "OPEN"
  /\ LogReceived

\* one instance of the observer hook, its WebSockets and the log events it
\* receives on an open one
HookNext ==
  \/ HookMount
  \/ \E w \in HookSockets : SockOpen(w)
  \/ \E w \in HookSockets : SockClose(w)
  \/ \E t \in 1..MaxHookSockets : ReconnectFire(t)
  \/ HookCleanup
  \/ HookLogReceived

HookSpec == Init /\ [][HookNext]_vars

\* the PRD generator and its children
PrdNext ==
  \/ GeneratePRD
  \/ \E ok \in BOOLEAN : PrdSpawn(ok)
  \/ PrdCancel
  \/ \E c \in PrdChildren, code \in {"0", "1", "null"} : PrdClose(c, code)
  \/ \E c \in PrdChildren : PrdError(c)

PrdSpec == Init /\ [][PrdNext]_vars

\* one observer receiving log events
ObsNext == LogReceived

ObsSpec == Init /\ [][ObsNext]_vars

\* the log file and its tailer
TailSpec == Init /\ [][TailNext]_vars

\* The scheduling the supervisor relies on: time passes, a due timer runs, the
\* 'error'/'close' of a failed spawn is delivered, and a child that received
\* SIGKILL dies and closes.
Fairness ==
  /\ WF_vars(Tick)
  /\ WF_vars(TimerFire)
  /\ \A c \in Children :
       /\ WF_vars(ChildError(c))
       /\ WF_vars(child[c].kills > 0 /\ ChildClose(c, "null"))

FairSpec == Spec /\ Fairness

(* ------------------------------------------------------------ supervisor *)
Live(c) == child[c].st \in {"alive", "failing"}

Stopping(c) == child[c].sinceStop >= 0

C2_KillOnceAfterGrace ==
  \A c \in Children :
    /\ child[c].kills <= 1
    /\ child[c].kills >= 1 => child[c].sinceStop >= GracePeriod

\* C3: a SIGKILL is delivered to a child only by a timer that was armed for
\* that child (a timer of an earlier run never signals a later child).
C3_NoStaleKill ==
  [][\A c \in Children :
       child'[c].kills > child[c].kills
         => (timers # <<>> /\ Head(timers).armedFor = c)]_vars

\* C4: at most one grace timer is pending in every reachable state.
C4_OneTimer == Len(timers) <= 1

\* C5: under fairness, every stop() issued while a child is held is
\* eventually followed by the supervisor being idle: no process handle and
\* the latest published status has running = false.
StopIssued == process # 0 /\ out = <<SupLog("Stopping loop...", "info")>>

SupervisorIdle == process = 0 /\ ~lastBcast.status.running

C5_StopLeadsToIdle == StopIssued ~> SupervisorIdle

\* C5 witness: the timer of a stop() escalated to SIGKILL on the held child
C5_Witness ==
  /\ process # 0
  /\ child[process].kills = 1
  /\ child[process].sinceStop >= GracePeriod
  /\ out = <<SupLog("Force killing loop...", "warning")>>
(* ------------------------------------------------------------- log tailer *)
\* no tailLog() is in flight and no notification is waiting
TailQuiet == tails = <<>> /\ notifs = 0

\* the log was written by exactly two appends, each followed by one tail that
\* ran alone: the first emitted from offset 0, the second from where the first
\* ended to the end
TwoWritesTwoTails ==
  /\ TailQuiet
  /\ ~raced
  /\ resets = 0
  /\ fileOps = 2
  /\ Len(emitted) = 2
  /\ emitted[1].from = 0
  /\ emitted[2].from = emitted[1].to
  /\ emitted[2].to = Len(logFile)

\* C6: after two appends A and B, each followed by one tail, the first tail
\* emitted exactly the lines of A, the second exactly the lines of B, and
\* together they emitted the lines of the final file read from offset 0,
\* also when A ends in the middle of a line.
C6_TwoWritesEmitFileLines ==
  TwoWritesTwoTails =>
    LET A == SubSeq(logFile, 1, emitted[1].to)
        B == SubSeq(logFile, emitted[1].to + 1, Len(logFile))
    IN /\ emitted[1].lines = LogLines(A)
       /\ emitted[2].lines = LogLines(B)
       /\ emitted[1].lines \o emitted[2].lines = LogLines(logFile)

\* C7: a tail (running alone) whose stat finds the file smaller than the
\* stored offset resets the offset to 0 and goes on to read the file from
\* offset 0.
C7_ShrinkRestartsFromZero ==
  [][\A i \in 1..Len(tails) :
       (TailStat(i) /\ ~raced /\ logExists /\ Len(logFile) < lastLogPosition)
         => /\ lastLogPosition' = 0
            /\ Len(tails') = Len(tails)
            /\ tails'[i].pc = "open"]_vars

\* C8: while the log only grows, no byte is emitted by two tails and the
\* stored offset never decreases, however the tails in flight interleave.
C8_NoDoubleEmitNoRewind ==
  /\ [](resets = 0 =>
         \A i, j \in 1..Len(emitted) :
           i < j => (emitted[i].to <= emitted[j].from \/ emitted[j].to <= emitted[i].from))
  /\ [][(resets = 0 /\ resets' = 0) => lastLogPosition' >= lastLogPosition]_vars

(* ------------------------------------------------------------ hub: claims *)
\* socket c was just handed the initial state by the connection handler
JustConnected(c) ==
  /\ ready[c] = "OPEN"
  /\ Len(sent[c]) = 4
  /\ sent[c][4].type = "config:update"

\* C9: what a connected socket has been sent begins with one loop:status, one
\* tasks:update and one git:update snapshot, sent by the connection handler
\* itself: no socket of the set is without them and no other message ever
\* comes first.
C9_SnapshotsBeforeEvents ==
  \A c \in Sockets :
    /\ first[c] \in {"nothing", "snapshots"}
    /\ ready[c] # "none" => first[c] = "snapshots"
    /\ c \in clients => ready[c] # "none"

\* a socket that got its snapshots and then an incremental event
C9_Witness ==
  \E c \in Sockets :
    /\ ready[c] = "OPEN"
    /\ first[c] = "snapshots"
    /\ sent[c] # <<>>
    /\ sent[c][1].type = "loop:log"

\* C10: the three snapshots the connection handler sends carry the payloads
\* of the latest loop:status, tasks:update and git:update broadcasts (the
\* values as constructed when nothing was broadcast yet).
C10_SnapshotIsLatestBroadcast ==
  \A c \in Sockets :
    JustConnected(c) =>
      /\ sent[c][1].payload = lastBcast.status
      /\ sent[c][2].payload = lastBcast.tasks
      /\ sent[c][3].payload = lastBcast.git

\* a socket that connected mid-run, after a marker and a checklist broadcast
C10_Witness ==
  \E c \in Sockets :
    /\ JustConnected(c)
    /\ sent[c][1].payload.running
    /\ sent[c][1].payload.iteration > 0
    /\ sent[c][2].payload # InitTasks
    /\ process # 0

\* C11: whenever a handler emits events, every socket of the set that is OPEN
\* is sent exactly these events, whatever the state of the other sockets of
\* the set.
C11_ClosedChannelIsolated ==
  [][out' # out =>
       \A d \in clients' : ready'[d] = "OPEN" => sent'[d] = out']_vars

\* a broadcast that skipped a closed socket of the set and reached an open one
C11_Witness ==
  \E c, d \in clients :
    /\ ready[c] = "CLOSED"
    /\ sent[c] = <<>>
    /\ ready[d] = "OPEN"
    /\ out # <<>>
    /\ sent[d] = out

\* C12: a broadcast that finds a socket of the set not OPEN removes it from
\* the set.
C12_ClosedChannelRemoved ==
  [][\A c \in clients :
       (out' # out /\ ready[c] # "OPEN") => c \notin clients']_vars

\* C13: a start() refused because a child is held sends no loop:log message
\* to any socket: the refusal goes to its caller alone.
C13_RefusalNotBroadcast ==
  [][(process # 0 /\ \E o \in StartOptions, ok \in BOOLEAN : Start(o, ok))
       => \A c \in Sockets : \A i \in 1..Len(sent'[c]) : sent'[c][i].type # "loop:log"]_vars

(* ------------------------------------------------------- commands: claims *)
\* the command socket c sends in this step fails: the message does not parse,
\* the document name is rejected, the document cannot be read or written,
\* the toggle fails
FailedCommand(c) ==
  \/ Malformed(c)
  \/ \E name \in DocNames :
       (InvalidFilename(name) \/ name \notin docs) /\ ConfigRead(c, name)
  \/ \E name \in DocNames, fail \in {"none", "mkdir", "writeFile"} :
       (InvalidFilename(name) \/ fail # "none") /\ ConfigWrite(c, name, fail)
  \/ \E known \in BOOLEAN, fail \in {"none", "mkdir", "writeFile"} :
       (~known \/ ClaudeMd \notin docs \/ fail # "none") /\ AgentsToggle(c, known, fail)

\* C14: the handler of a command that fails sends a message to the socket
\* the command came from.
C14_FailureReplied ==
  [][\A c \in Sockets : FailedCommand(c) => sent'[c] # <<>>]_vars

\* the name contains '..' or is an absolute path
EscapingName(name) ==
  \/ \E i \in 1..(Len(name) - 1) : name[i] = "." /\ name[i + 1] = "."
  \/ (Len(name) > 0 /\ name[1] = "/")

\* C15: a config:read or config:write whose document name contains '..' or
\* is an absolute path performs no file-system operation, and leaves the
\* documents and the configuration as they were.
C15_EscapingNameRejected ==
  [][\A c \in Sockets, name \in DocNames :
       (/\ EscapingName(name)
        /\ \/ ConfigRead(c, name)
           \/ \E fail \in {"none", "mkdir", "writeFile"} : ConfigWrite(c, name, fail))
         => (fsOps' = <<>> /\ docs' = docs /\ config' = config)]_vars

\* a write of a name with '..' was rejected after another document was written
C15_Witness ==
  /\ cmd.type = "config:write"
  /\ Includes(cmd.file, <<".", ".">>)
  /\ fsOps = <<>>
  /\ docs # {}
  /\ config = Refreshed(docs)

(* ---------------------------------------------- supervisor: further claims *)
\* the loop:log events among evs
LogsOf(evs) == SelectSeq(evs, LAMBDA e : e.type = "loop:log")

\* C16: the step in which a live child ends (clean exit, non-zero exit,
\* killed, failed spawn) clears the process handle, publishes last a status
\* with running false and no pid, and emits exactly one log, of level success
\* when the exit code is 0 and error otherwise.
C16_ExitClearsHandleLogsOnce ==
  [][\A c \in Children :
       (Live(c) /\ child'[c].st = "closed") =>
         /\ process' = 0
         /\ ~status'.running
         /\ status'.pid = 0
         /\ out'[Len(out')] = StatusEvent(status')
         /\ Len(LogsOf(out')) = 1
         /\ LogsOf(out')[1].payload.level =
              (IF ChildClose(c, "0") THEN "success" ELSE "error")]_vars

\* C17: a stop() while nothing is held emits the one warning and leaves the
\* process handle, the status, the children (no signal) and the timers as
\* they were.
C17_StopUnheldWarnsOnly ==
  [][(process = 0 /\ Stop) =>
       /\ out' = <<SupLog("No loop running", "warning")>>
       /\ UNCHANGED supVars]_vars

\* a stop() with nothing held, after a run that ended
C17_Witness ==
  /\ process = 0
  /\ spawned > 0
  /\ ~status.running
  /\ out = <<SupLog("No loop running", "warning")>>

\* C18: a stop() while the held child is already stopping emits a warning,
\* sends the child no signal and arms no timer.
C18_SecondStopIsNoOp ==
  [][(process # 0 /\ Stopping(process) /\ Stop) =>
       /\ Len(out') = 1
       /\ out'[1].payload.level = "warning"
       /\ child' = child
       /\ timers' = timers]_vars

\* C19: the arguments of a child started in mode plan-work are those of a
\* plan-work start without scope text, whatever the scope text is.
C19_ScopeOnlyInEnvironment ==
  \A c \in Children :
    (child[c].st = "alive" /\ process = c /\ status.mode = "plan-work") =>
      child[c].argv = Args([mode |-> "plan-work", maxIterations |-> status.maxIterations,
                            workScope |-> "undefined"])

(* ---------------------------------------------------- classifier: claims *)
\* the upper-case letters and their lower-case forms
CasePairs ==
  { <<"A", "a">>, <<"B", "b">>, <<"C", "c">>, <<"D", "d">>, <<"E", "e">>, <<"F", "f">>,
    <<"G", "g">>, <<"I", "i">>, <<"L", "l">>, <<"M", "m">>, <<"N", "n">>, <<"O", "o">>,
    <<"P", "p">>, <<"R", "r">>, <<"S", "s">>, <<"T", "t">>, <<"U", "u">>, <<"W", "w">>,
    <<"X", "x">> }

\* the same letter, whatever the case
SameLetter(a, b) == a = b \/ <<a, b>> \in CasePairs \/ <<b, a>> \in CasePairs

\* line contains one of the words, whatever the case
Mentions(line, words) ==
  \E w \in words : \E i \in 0..(Len(line) - Len(w)) :
    \A j \in 1..Len(w) : SameLetter(line[i + j], w[j])

ErrorWords == {<<"e", "r", "r", "o", "r">>, <<"f", "a", "i", "l">>, <<"e", "x", "c", "e", "p", "t", "i", "o", "n">>}
WarningWords == {<<"w", "a", "r", "n", "i", "n", "g">>, <<"w", "a", "r", "n">>}
SuccessWords == {<<"s", "u", "c", "c", "e", "s", "s">>, <<"c", "o", "m", "p", "l", "e", "t", "e">>, <<"p", "a", "s", "s">>}

\* C20: the type of a line is error when it contains error, fail or
\* exception in any case; else warning when it contains warning or warn; else
\* success when it contains success, complete or pass; else info.
C20_ClassifyByPriority ==
  logType = (IF Mentions(logLine, ErrorWords) THEN "error"
             ELSE IF Mentions(logLine, WarningWords) THEN "warning"
             ELSE IF Mentions(logLine, SuccessWords) THEN "success"
             ELSE "info")

\* a classified line with a success word in upper case before an error word
C20_Witness ==
  /\ Mentions(logLine, SuccessWords)
  /\ Mentions(logLine, ErrorWords)
  /\ ~Includes(logLine, <<"s", "u", "c", "c", "e", "s", "s">>)
  /\ logLine[1] = "S"
  /\ logType = "error"

\* C21: "Error: connection failed" is classified error, "WARNING: retrying"
\* warning, "Build succeeded" success and "starting step 3" info.
C21_SampleLinesClassified ==
  /\ logLine = LineError => logType = "error"
  /\ logLine = LineWarning => logType = "warning"
  /\ logLine = LineSucceeded => logType = "success"
  /\ logLine = LineStarting => logType = "info"

(* ------------------------------------------------------- checklist: claims *)
\* where the bracket of a line opens: after the dash and blanks only
BracketOf(line) ==
  CHOOSE p \in 2..Len(line) : line[p] = "[" /\ \A i \in 2..(p - 1) : line[i] = " "

\* a line of the checkbox pattern: a dash, blanks, a bracketed blank, x or X,
\* and at least one more character
CheckboxLine(line) ==
  /\ Len(line) >= 5
  /\ line[1] = "-"
  /\ \E p \in 2..(Len(line) - 3) :
       /\ line[p] = "["
       /\ \A i \in 2..(p - 1) : line[i] = " "
       /\ line[p + 1] \in {" ", "x", "X"}
       /\ line[p + 2] = "]"

\* s without the blanks at its ends
Strip(s) ==
  LET ns == {i \in 1..Len(s) : s[i] # " "}
  IN IF ns = {} THEN <<>>
     ELSE SubSeq(s, CHOOSE i \in ns : \A j \in ns : i <= j,
                    CHOOSE i \in ns : \A j \in ns : j <= i)

\* C22: once the plan is parsed, the items are the checkbox lines in source
\* order, each with the id of its line index, done exactly for x or X and
\* the trimmed remainder as text; other lines give no item; completed counts
\* the done items and total the items. The plan "- [ ] write tests\n- [x]
\* build core\n" gives completed 1, total 2 and these two items.
C22_ParseChecklist ==
  (planNotifs = 0 /\ planFile # <<>>) =>
    LET lines == Split(planFile)
        ts == tasks.tasks
    IN /\ tasks.total = Len(ts)
       /\ tasks.completed = Cardinality({i \in 1..Len(ts) : ts[i].completed})
       /\ tasks.completed <= tasks.total
       /\ Len(ts) = Cardinality({k \in 1..Len(lines) : CheckboxLine(lines[k])})
       /\ \A i, j \in 1..Len(ts) : i < j => ts[i].id[2] < ts[j].id[2]
       /\ \A i \in 1..Len(ts) :
            LET k == ts[i].id[2] + 1
            IN /\ ts[i].id[1] = "task-"
               /\ k \in 1..Len(lines)
               /\ CheckboxLine(lines[k])
               /\ ts[i].completed = (lines[k][BracketOf(lines[k]) + 1] \in {"x", "X"})
               /\ ts[i].content =
                    Strip(SubSeq(lines[k], BracketOf(lines[k]) + 3, Len(lines[k])))
       /\ planFile = PlanExample =>
            tasks = [tasks |-> << [id |-> <<"task-", 0>>, content |-> <<"w", "r", "i", "t", "e", " ", "t", "e", "s", "t", "s">>,
                                  completed |-> FALSE],
                                 [id |-> <<"task-", 1>>, content |-> <<"b", "u", "i", "l", "d", " ", "c", "o", "r", "e">>,
                                  completed |-> TRUE] >>,
                     completed |-> 1, total |-> 2]

\* the example plan, parsed
C22_Witness ==
  /\ planFile = PlanExample
  /\ planNotifs = 0
  /\ tasks.total = 2
  /\ tasks.completed = 1
  /\ out # <<>>

(* ------------------------------------------- supervisor: start and streams *)
\* C23: a start() that spawns (nothing was held) publishes, as the last
\* event of the step, the status it has set: running, iteration 0, the
\* options' mode and a startedAt later than that of any run before, whatever
\* the iteration of the status before was.
C23_StartPublishesFreshStatus ==
  [][\A o \in StartOptions, ok \in BOOLEAN :
       (process = 0 /\ Start(o, ok)) =>
         /\ status'.running
         /\ status'.iteration = 0
         /\ status'.mode = o.mode
         /\ status'.startedAt > status.startedAt
         /\ out'[Len(out')] = StatusEvent(status')
         /\ \A i \in 1..Len(out') :
              out'[i].type = "loop:status" => out'[i].payload.iteration = 0]_vars

\* C23 witness: the second run has just been started, its status published
\* with iteration 0
C23_Witness ==
  /\ spawned = 2
  /\ process = 2
  /\ child[2].st = "alive"
  /\ status.running /\ status.iteration = 0 /\ status.startedAt = 2
  /\ out = <<SupLog("Starting loop", "info"), StatusEvent(status)>>
  /\ lastBcast.status = status

\* the non-blank lines of a chunk, in order
NonBlank(chunk) == SelectSeq(chunk, LAMBDA n : n # -2)

\* the positions in evs of the logs, in order
RECURSIVE LogPositions(_, _)
LogPositions(evs, i) ==
  IF i > Len(evs) THEN <<>>
  ELSE (IF evs[i].type = "loop:log" THEN <<i>> ELSE <<>>) \o LogPositions(evs, i + 1)

\* C24: the stdout handler emits, for a chunk, exactly one info log per
\* non-blank line, in order and carrying the line; a status event is emitted
\* only for a line with the marker, directly before that line's log and
\* carrying the marker's integer as iteration; the status is left with the
\* integer of the last marker of the chunk (lower than before or not) and is
\* otherwise unchanged.
C24_StdoutLineLoggedMarkerFirst ==
  [][\A c \in Children, chunk \in StdoutChunks :
       StdoutData(c, chunk) =>
         LET lines == NonBlank(chunk)
             at == LogPositions(out', 1)
             markers == SelectSeq(lines, LAMBDA n : n >= 0)
         IN /\ Len(at) = Len(lines)
            /\ \A k \in 1..Len(lines) :
                 /\ out'[at[k]] = LogEvent(<<"stdout", ToString(lines[k])>>, "info")
                 /\ lines[k] >= 0 =>
                      /\ at[k] > 1
                      /\ out'[at[k] - 1].type = "loop:status"
                      /\ out'[at[k] - 1].payload.iteration = lines[k]
            /\ Len(out') = Len(lines) + Len(markers)
            /\ status' = IF markers = <<>> THEN status
                         ELSE [status EXCEPT !.iteration = markers[Len(markers)]]]_vars

\* C24 witness: one chunk brought the marker of the highest iteration and then
\* the marker of iteration 0: each status was published before the log of its
\* line, and the iteration went down
C24_Witness ==
  /\ process # 0
  /\ Len(out) = 4
  /\ out[1].type = "loop:status" /\ out[1].payload.iteration = MaxIter
  /\ out[2] = LogEvent(<<"stdout", ToString(MaxIter)>>, "info")
  /\ out[3].type = "loop:status" /\ out[3].payload.iteration = 0
  /\ out[4] = LogEvent(<<"stdout", "0">>, "info")
  /\ status.iteration = 0

\* C25: the stderr handler emits, for a chunk, exactly one error log per
\* non-blank line, in order and carrying the line, and no other event; it
\* leaves the status (iteration included) and the rest of the supervisor as
\* they were, even for a line with the marker.
C25_StderrLoggedStatusKept ==
  [][\A c \in Children, chunk \in StderrChunks :
       StderrData(c, chunk) =>
         /\ out' = [k \in 1..Len(NonBlank(chunk)) |->
                      LogEvent(<<"stderr", ToString(NonBlank(chunk)[k])>>, "error")]
         /\ status' = status
         /\ lastBcast'.status = lastBcast.status
         /\ UNCHANGED <<process, child, spawned, timers>>]_vars

\* C25 witness: a line with the marker of the highest iteration came on
\* standard error while the status held another iteration: it was logged as
\* an error and the iteration was left
C25_Witness ==
  /\ process # 0
  /\ status.running
  /\ status.iteration # MaxIter
  /\ out = <<LogEvent(<<"stderr", ToString(MaxIter)>>, "error")>>

(* --------------------------------------------------- tailer: further claims *)
\* C26: while the log only grows, the tails emit the bytes of the file in
\* byte order: whatever a tail emitted lies in the file before whatever any
\* later tail emits, however many notifications came.
C26_TailEmitsInByteOrder ==
  resets = 0 =>
    \A i, j \in 1..Len(emitted) : i < j => emitted[i].to <= emitted[j].from

\* C27: a tail that finds the log file missing (at its stat, or at its open)
\* ends there: it sets the stored offset to 0 and emits nothing; and when
\* tails run one at a time, the first tail after it that finds content reads
\* it and emits the file from offset 0 to its end.
C27_MissingFileResetsOffset ==
  /\ [][\A i \in 1..Len(tails) :
          ((TailStat(i) \/ TailOpen(i)) /\ ~logExists) =>
            /\ lastLogPosition' = 0
            /\ out' = <<>>
            /\ emitted' = emitted
            /\ tails' = Without(tails, i)]_vars
  /\ [][\A i \in 1..Len(tails) :
          (TailStat(i) /\ caught = "pending" /\ ~raced /\ logExists /\ Len(logFile) > 0)
            => tails'[i].pc = "open"]_vars
  /\ [][\A i \in 1..Len(tails) :
          (TailEmit(i) /\ caught = "pending" /\ ~raced) =>
            /\ emitted'[Len(emitted')].from = 0
            /\ emitted'[Len(emitted')].to = Len(logFile)
            /\ emitted'[Len(emitted')].lines = LogLines(logFile)
            /\ out' = TailEntries(logFile)]_vars

\* C27 witness: a tail found the file missing, the file was written again and
\* the next tail emitted it from offset 0 (tails running one at a time)
C27_Witness ==
  /\ caught = "served"
  /\ ~raced
  /\ logExists
  /\ Len(emitted) = 1
  /\ emitted[1].from = 0
  /\ emitted[1].to = Len(logFile)
  /\ emitted[1].lines # <<>>
  /\ lastLogPosition = Len(logFile)

(* ---------------------------------------------------- hub: further claims *)
\* C28: a poll in which one of the queries (branch, status, log, getRemotes)
\* rejects leaves the git status and the latest broadcast as they were and
\* emits and sends nothing; a poll in which every query resolves sets the git
\* status to the new result, every field of it, and emits it as one
\* git:update.
C28_FailedPollKeepsSnapshot ==
  [][\A fail \in GitFailures, res \in GitResults :
       UpdateGitStatus(fail, res) =>
         IF fail = "none"
         THEN /\ gitStatus' = res
              /\ out' = <<[type |-> "git:update", payload |-> res]>>
              /\ lastBcast'.git = res
         ELSE /\ gitStatus' = gitStatus
              /\ out' = <<>>
              /\ \A c \in Sockets : sent'[c] = <<>>
              /\ lastBcast' = lastBcast]_vars

\* C28 witness: a poll had set the status, and after a step that emitted
\* nothing (a poll with a rejected query is one) the status and the latest
\* git broadcast are still that result and an open socket was sent nothing
C28_Witness ==
  /\ gitStatus = [branch |-> "dev", uncommittedCount |-> 0, commits |-> 1,
                  remoteUrl |-> "undefined"]
  /\ lastBcast.git = gitStatus
  /\ out = <<>>
  /\ \E c \in Sockets : ready[c] = "OPEN" /\ sent[c] = <<>>

\* C29: the connection handler sends the initial state to the socket that
\* connected and nothing to any other socket; no event is emitted and the
\* latest broadcasts are as they were.
C29_ConnectSendsToNewOnly ==
  [][\A c \in Sockets :
       Connect(c) =>
         /\ sent'[c] = Snapshots
         /\ \A d \in Sockets \ {c} : sent'[d] = <<>>
         /\ UNCHANGED <<out, lastBcast>>]_vars

\* C29 witness: a socket has just connected and got the initial state while
\* another socket was open, which was sent nothing
C29_Witness ==
  \E c, d \in Sockets :
    /\ c # d
    /\ JustConnected(c)
    /\ sent[c] = Snapshots
    /\ d \in clients /\ ready[d] = "OPEN"
    /\ first[d] = "snapshots"
    /\ sent[d] = <<>>

(* --------------------------------------------------- commands: more claims *)
\* C30: the handler of a config:write that succeeds sends a message to every
\* open socket of the set, not only to the socket the command came from.
C30_WriteReachesEveryChannel ==
  [][\A c \in Sockets, name \in DocNames :
       (~InvalidFilename(name) /\ ConfigWrite(c, name, "none")) =>
         \A d \in clients : ready[d] = "OPEN" => sent'[d] # <<>>]_vars

(* ---------------------------------------------------------- observer: claims *)
\* C31: the observer's log buffer holds at most 500 entries, and they are the
\* entries received last, in the order they arrived.
C31_BufferAtMost500 ==
  /\ Len(logs) <= LogKeep
  /\ \A i \in 1..Len(logs) : logs[i] = received - Len(logs) + i

(* ------------------------------------------- supervisor: status and handle *)
\* C32: between the callbacks of the supervisor, the status says running
\* exactly when a process handle is held, and a status that is not running
\* has no pid.
C32_RunningIffHandleHeld ==
  /\ status.running <=> process # 0
  /\ ~status.running => status.pid = 0

\* C32 witness: a run with a pid has ended: no handle, not running, no pid
C32_Witness ==
  /\ spawned >= 1
  /\ child[1].st = "closed"
  /\ process = 0
  /\ ~status.running
  /\ status.pid = 0
  /\ status.startedAt = 1
  /\ Len(out) = 2
  /\ out[2] = StatusEvent(status)

\* the loop:status events among evs that say running false
StoppedStatuses(evs) ==
  SelectSeq(evs, LAMBDA e : e.type = "loop:status" /\ ~e.payload.running)

\* C33: the end of a run (clean exit, non-zero exit, killed, failed spawn)
\* publishes one status with running false and emits one termination log, so
\* that a status with running false is never published twice for one run.
C33_OneTerminationPerRun ==
  [][\A c \in Children :
       (Live(c) /\ child'[c].st = "closed") =>
         /\ Len(StoppedStatuses(out')) = 1
         /\ Len(SelectSeq(out', LAMBDA e : e.type = "loop:log")) = 1]_vars

C35_NewerGenerationKept ==
  /\ Cardinality({c \in PrdChildren : prdChild[c].st = "alive"}) <= 1
  /\ \A c \in PrdChildren :
       (c = prdSpawned /\ prdChild[c].st = "alive" /\ prdChild[c].terms = 0) =>
         /\ prdStatus.generating
         /\ prdProcess = c

(* ------------------------------------------------- stopping the watcher: claim *)
\* C36: once stop() has returned, no handler of the file watcher emits an
\* event: the last handler that ran after it emitted nothing.
C36_QuietAfterStop ==
  ~watching => out = <<>>

(* ------------------------------------------------------ observer hook: claim *)
\* C37: once the cleanup of the effect has run, the instance arms no
\* reconnect timer and creates no WebSocket.
C37_NoReconnectAfterCleanup ==
  [][hookPhase = "cleaned" => (armed' = armed /\ opened' = opened)]_vars

(* ------------------------------------------------- commands: failed commands *)
\* C38: the handler of a command that fails (unparsable message, rejected or
\* unreadable document, failed write, failed toggle) leaves the set of
\* sockets, their readyState, the latest broadcasts, the supervisor, the
\* watcher state, the documents and the configuration as they were; it emits
\* nothing and sends nothing to any other socket; the sender stays open and in
\* the set, so its next message is handled.
C38_FailedCommandLeavesHub ==
  [][\A c \in Sockets :
       FailedCommand(c) =>
         /\ UNCHANGED <<clients, ready, out, lastBcast, supVars, fwVars, docs, config>>
         /\ c \in clients' /\ ready'[c] = "OPEN"
         /\ \A d \in Sockets \ {c} : sent'[d] = <<>>]_vars

\* C38 witness: with two sockets open and a document present, a config:write
\* of one socket failed at the file system: both sockets are still open and
\* in the set and neither was sent anything
C38_Witness ==
  \E c, d \in Sockets :
    /\ c # d
    /\ cmd.from = c
    /\ cmd.type = "config:write"
    /\ fsOps # <<>>
    /\ ~InvalidFilename(cmd.file)
    /\ cmd.file \notin docs
    /\ docs # {}
    /\ {c, d} \subseteq clients
    /\ ready[c] = "OPEN" /\ ready[d] = "OPEN"
    /\ sent[c] = <<>> /\ sent[d] = <<>>

(* ------------------------------------------------------------ shutdown: claim *)
\* C39: once the server has exited, a child that is still alive has been
\* sent SIGINT and is within the grace period, or has been sent SIGKILL.
C39_ChildDoesNotOutliveServer ==
  ~serverUp =>
    \A c \in Children :
      child[c].st = "alive" =>
        /\ child[c].ints >= 1
        /\ child[c].sinceStop < GracePeriod \/ child[c].kills >= 1
====
